---- MODULE Spec2Model ----
(***************************************************************************)
(* A model of hearthstone-parser: the log tailer (LogWatcher.update and    *)
(* readLogFile), the line-parser pipeline (lineParsers, parseLines) and    *)
(* the GameState the parsers mutate.                                       *)
(*                                                                         *)
(* A log line is a record [label, kind, groups]: `label` is the bracketed  *)
(* subsystem prefix, `kind` the shape of the content and `groups` the      *)
(* named captures a content regex would extract from it.  A value that is  *)
(* `undefined` in the program is Undefined (numbers) or "undefined"        *)
(* (mulliganActive); an optional property an object does not carry is a    *)
(* field missing from the record.                                          *)
(***************************************************************************)
EXTENDS Integers, Sequences, FiniteSets, TLC

VARIABLES
    gameState,      \* LogWatcher.gameState
    now,            \* the clock read by Date.now()
    lastDest,       \* history: entityId -> state of the latest applied zone-change destination
    lastFileSize,   \* LogWatcher.#lastFileSize
    watcher,        \* LogWatcher.#watcher is not null
    fileSize,       \* size in bytes of the watched file on disk
    seenSize,       \* the size the file watch last reported; Undefined before its first report
    timerId,        \* the throttle has a timer armed
    lastArgs,       \* the throttle's pending argument (a stats.size); Undefined when none
    throttled,      \* less than the throttle's wait has passed since it last invoked update
    inflight,       \* the invocations of the async body of update that have not finished
    delivered,      \* history: byte -> how many times it was handed to parseLines
    truncated,      \* history: the file has been truncated or replaced by a smaller one
    stopped,        \* history: stop() has been called
    options,        \* LogWatcher.#options
    emitted,        \* number of "gamestate-changed" events emitted so far
    lastBatch,      \* history: what the latest parseLines call did
    blockState,     \* card-init block parser: blockState, <<>> for null, else <<state>>
    indent,         \* card-init block parser: indent
    blockLog,       \* history: what the block parser did with the latest line it looked at
    heap,           \* the CardEntity objects: address -> properties
    logEntry,       \* the MatchLogEntry under construction; <<>> when there is none
    lastOp          \* history: the last operation on heap or entry, and what was there before

gameVars == <<gameState, now, lastDest>>
tailVars == <<lastFileSize, watcher, fileSize, seenSize, timerId, lastArgs, throttled,
              inflight, delivered, truncated, stopped>>
notifyVars == <<options, emitted, lastBatch>>
blockVars == <<blockState, indent, blockLog>>
logVars == <<heap, logEntry, lastOp>>
vars == <<gameState, now, lastDest, lastFileSize, watcher, fileSize, seenSize, timerId,
          lastArgs, throttled, inflight, delivered, truncated, stopped, options,
          emitted, lastBatch, blockState, indent, blockLog, heap, logEntry, lastOp>>

----------------------------------------------------------------------------
(* Bounds *)

MaxTime == 3
MaxTurns == 2
MaxGameOver == 3
MaxCardCount == 1
MaxFileSize == 2
MaxInflight == 2
MaxDelivered == 2
MaxBatch == 2
MaxMatchLog == 2
\* Secret and quest records one player holds.
MaxSecrets == 2
\* The largest linesPerUpdate a watcher is constructed with.
MaxChunk == 2
\* CardEntity objects alive at a time.
MaxEntities == 2

----------------------------------------------------------------------------
(* Values *)

Undefined == 0 - 1
NaN == 0 - 2

DECK_CARD_COUNT == 30
unknownPlayerName == "UNKNOWN HUMAN PLAYER"
DefaultTimeout == 45

Team == [Friendly |-> "FRIENDLY", Opposing |-> "OPPOSING"]
Zone == [Deck |-> "DECK", Hand |-> "HAND", Secret |-> "SECRET"]

\* The static card table: textual card id -> dbfId; a miss is Undefined.
cardData(cardId) ==
    CASE cardId = "CS2_029" -> 315
      [] cardId = "EX1_610" -> 585
      [] cardId = "UNG_940" -> 41222
      [] OTHER -> Undefined

\* data/quests and data/secrets, by textual card id.
questMap == [c \in {"UNG_940"} |-> [class |-> "HUNTER", requirement |-> 7, sidequest |-> FALSE]]
secretToClass == [c \in {"EX1_610"} |-> "HUNTER"]

\* JavaScript subtraction of two numbers either of which may be undefined.
Minus(a, b) == IF a < 0 \/ b < 0 THEN NaN ELSE a - b

Last(s) == s[Len(s)]

----------------------------------------------------------------------------
(* GameState *)

reset(gs) ==
    [gs EXCEPT !.players = <<>>,
               !.matchLog = <<>>,
               !.beginPhaseActive = TRUE,
               !.gameOverCount = 0,
               !.entities = <<>>,
               !.missingEntityIds = {}]

\* new GameState(): the field declarations carry no initialisers, the
\* constructor only calls reset().
NewGameState ==
    reset([startTime |-> Undefined,
           matchDuration |-> Undefined,
           gameOverCount |-> Undefined,
           players |-> <<>>,
           beginPhaseActive |-> FALSE,
           mulliganActive |-> "undefined",
           turnStartTime |-> Undefined,
           matchLog |-> <<>>,
           entities |-> <<>>,
           missingEntityIds |-> {}])

start(gs, t) == [reset(gs) EXCEPT !.startTime = t]

complete(gs) == gs.gameOverCount = 2

active(gs) == gs.startTime > 0 /\ ~complete(gs)

\* Array.prototype.find, as the index of the first element whose test holds;
\* 0 when there is none.
FindIndex(tests) ==
    IF \E i \in 1..Len(tests) : tests[i]
    THEN CHOOSE i \in 1..Len(tests) : tests[i] /\ \A j \in 1..(i - 1) : ~tests[j]
    ELSE 0

getPlayerById(gs, index) ==
    FindIndex([i \in 1..Len(gs.players) |-> gs.players[i].id = index])

getPlayerByPosition(gs, position) ==
    FindIndex([i \in 1..Len(gs.players) |-> gs.players[i].position = position])

getPlayerByName(gs, name) ==
    FindIndex([i \in 1..Len(gs.players) |-> gs.players[i].name = name])

getOpponentPlayer(gs, player) ==
    FindIndex([i \in 1..Len(gs.players) |-> gs.players[i].id # gs.players[player].id])

getPlayerByTeam(gs, team) ==
    CASE team = Team.Friendly -> getPlayerByPosition(gs, "bottom")
      [] team = Team.Opposing -> getPlayerByPosition(gs, "top")
      [] OTHER -> 0

newPlayer(id, name) ==
    [id |-> id,
     name |-> name,
     status |-> "",
     turn |-> FALSE,
     turnHistory |-> <<>>,
     timeout |-> DefaultTimeout,
     cardCount |-> 0,
     cards |-> <<>>,
     position |-> "bottom",
     secrets |-> <<>>,
     quests |-> <<>>,
     cardsReplacedInMulligan |-> 0,
     availableMana |-> 0,
     manaSpent |-> 0]

\* cardList.find((c) => c.entityId === entityId), as an index; 0 when none.
FindCard(cardList, entityId) ==
    FindIndex([i \in 1..Len(cardList) |-> cardList[i].entityId = entityId])

\* `if (cond) rec.field = value`
Assign(rec, cond, field, value) == IF cond THEN [rec EXCEPT ![field] = value] ELSE rec

\* putCards that also writes the isSpawnedCard it was passed into a card it
\* found.
putCards_resetsFlag(cardList, props) ==
    LET card == FindCard(cardList, props.entityId)
        has(f) == f \in DOMAIN props
    IN  IF card # 0
        THEN [cardList EXCEPT ![card] =
                Assign(Assign(Assign(Assign(@,
                    has("cardId") /\ props.cardId # 0 /\ props.cardId # Undefined,
                    "cardId", props.cardId),
                    has("cardName") /\ props.cardName # "", "cardName", props.cardName),
                    has("state"), "state", props.state),
                    has("isSpawnedCard"), "isSpawnedCard",
                    IF has("isSpawnedCard") THEN props.isSpawnedCard ELSE FALSE)]
        ELSE IF has("state") /\ has("isSpawnedCard")
             THEN Append(cardList,
                         [entityId |-> props.entityId,
                          state |-> props.state,
                          isSpawnedCard |-> props.isSpawnedCard,
                          cardId |-> props.cardId,
                          cardName |-> props.cardName,
                          tags |-> <<>>])
             ELSE cardList

\* putCards: props is a Partial<Card>; a property that was not passed is a
\* field the record does not have.
putCards(cardList, props) ==
    LET card == FindCard(cardList, props.entityId)
        has(f) == f \in DOMAIN props
    IN  IF card # 0
        THEN [cardList EXCEPT ![card] =
                Assign(Assign(Assign(@,
                    has("cardId") /\ props.cardId # 0 /\ props.cardId # Undefined,
                    "cardId", props.cardId),
                    has("cardName") /\ props.cardName # "", "cardName", props.cardName),
                    has("state"), "state", props.state)]
        ELSE IF has("state") /\ has("isSpawnedCard")
             THEN Append(cardList,
                         [entityId |-> props.entityId,
                          state |-> props.state,
                          isSpawnedCard |-> props.isSpawnedCard,
                          cardId |-> props.cardId,
                          cardName |-> props.cardName,
                          tags |-> <<>>])
             ELSE cardList

----------------------------------------------------------------------------
(* Entities and the match log.  An entity (CardEntity) and a snapshot     *)
(* (EntityProps) are functions from property names to values; a property  *)
(* that is undefined is not in the domain.  The tag map of an entity is a *)
(* function from tag names to strings.                                    *)

UNKNOWN_CARDNAME == "UNKNOWN ENTITY [cardType=INVALID]"

\* isEmpty(x.cardName)
isEmpty(props) ==
    "cardName" \notin DOMAIN props \/ props.cardName \in {"", UNKNOWN_CARDNAME}

\* lodash merge of one source into a destination: a property of the source
\* overwrites, except that plain objects (tags) are merged key by key and an
\* undefined source property is skipped.
merge(dst, src) ==
    [k \in DOMAIN dst \cup DOMAIN src |->
        IF k \notin DOMAIN src
        THEN dst[k]
        ELSE IF k = "tags" /\ k \in DOMAIN dst
             THEN [n \in DOMAIN dst[k] \cup DOMAIN src[k] |->
                      IF n \in DOMAIN src[k] THEN src[k][n] ELSE dst[k][n]]
             ELSE src[k]]

\* identifySpecialTags; the empty sequence stands for `undefined` (the
\* function returns an array only when it is not empty).
identifySpecialTags(entity) ==
    IF "tags" \notin DOMAIN entity
    THEN <<>>
    ELSE IF "CORRUPTEDCARD" \in DOMAIN entity.tags /\ entity.tags.CORRUPTEDCARD = "1"
         THEN <<"corrupt">>
         ELSE IF "CORRUPT" \in DOMAIN entity.tags /\ entity.tags.CORRUPT = "1"
              THEN <<"can-corrupt">>
              ELSE <<>>

\* An EntityTags[] as the object it is: index "0" -> its one element.
TagsArray(tags) == [k \in {"0"} |-> tags[1]]

\* `merged.tags = tags`
SetTags(merged, tags) ==
    [k \in DOMAIN merged \cup {"tags"} |-> IF k = "tags" THEN TagsArray(tags) ELSE merged[k]]

\* MatchLogEntry.createProps on the object at address entity of heap h:
\* _.merge writes props into that object and returns it, so what comes back
\* is the address that was passed in.
createProps(h, entity, props) ==
    LET tags == identifySpecialTags(h[entity])
        merged == merge(h[entity], props)
    IN  [heap |-> [h EXCEPT ![entity] = IF tags # <<>> THEN SetTags(merged, tags) ELSE merged],
         ref |-> entity]

\* MatchLogEntry.setSource on entry e.
setSource(h, e, entity, props) ==
    LET created == createProps(h, entity, props)
    IN  [heap |-> created.heap, entry |-> [e EXCEPT !.source = created.ref]]

\* new MatchLogEntry(type, source)
newMatchLogEntry(h, type, source) ==
    setSource(h, [type |-> type, manaSpent |-> 0, source |-> 0, targets |-> <<>>],
              source, <<>>)

\* MatchLogEntry.addTarget on entry e; entity 0 is a falsy argument.
addTarget(h, e, entity, props) ==
    IF \/ entity = 0
       \/ \E k \in 1..Len(e.targets) : h[e.targets[k]].entityId = h[entity].entityId
    THEN [heap |-> h, entry |-> e]
    ELSE LET created == createProps(h, entity, props)
         IN  [heap |-> created.heap,
              entry |-> [e EXCEPT !.targets = Append(@, created.ref)]]

\* What an entry shows for its source and its targets.
Recorded(h, e) ==
    [source |-> h[e.source], targets |-> [k \in 1..Len(e.targets) |-> h[e.targets[k]]]]

NoRecord == [source |-> <<>>, targets |-> <<>>]

NoOp == [op |-> "none", entity |-> 0, before |-> <<>>, recorded |-> NoRecord]

\* The ids addMatchLogEntry flags for one entry.
MissingIn(entry) ==
    (IF isEmpty(entry.source) THEN {entry.source.entityId} ELSE {})
    \cup {entry.targets[k].entityId :
            k \in {j \in 1..Len(entry.targets) : isEmpty(entry.targets[j])}}

addMatchLogEntry(gs, entries) ==
    [gs EXCEPT !.missingEntityIds = @ \cup UNION {MissingIn(entries[k]) : k \in 1..Len(entries)},
               !.matchLog = @ \o entries]

\* merge({type, tags, player, cardName}, existing, entity)
MergedEntity(gs, entity) ==
    LET base == [type |-> "card", tags |-> <<>>, player |-> "bottom", cardName |-> ""]
    IN  IF entity.entityId \in DOMAIN gs.entities
        THEN merge(merge(base, gs.entities[entity.entityId]), entity)
        ELSE merge(base, entity)

\* this.entities[entity.entityId] = newEntity
StoreEntity(gs, newEntity) ==
    [gs EXCEPT !.entities =
        [e \in DOMAIN @ \cup {newEntity.entityId} |->
            IF e = newEntity.entityId THEN newEntity ELSE @[e]]]

\* `if (tags) card.tags = tags`, with the tags appended to the card's own.
RetagCard_appends(card, tags) ==
    IF tags # <<>> THEN [card EXCEPT !.tags = @ \o tags] ELSE card

\* `if (tags) card.tags = tags`
RetagCard(card, tags) ==
    IF tags # <<>> THEN [card EXCEPT !.tags = tags] ELSE card

\* The loop over the cards of every player with the entity's id.
RetagCards(gs, newEntity) ==
    [gs EXCEPT !.players =
        [i \in 1..Len(gs.players) |->
            [gs.players[i] EXCEPT !.cards =
                [k \in 1..Len(gs.players[i].cards) |->
                    IF gs.players[i].cards[k].entityId = newEntity.entityId
                    THEN RetagCard(gs.players[i].cards[k], identifySpecialTags(newEntity))
                    ELSE gs.players[i].cards[k]]]]]

\* { ...snapshot, ...newProps } for a snapshot the entity resolves, where
\* newProps = { entityId, cardName, cardId } (cardId possibly undefined).
ResolveSnapshot(snapshot, newEntity) ==
    IF isEmpty(snapshot) /\ snapshot.entityId = newEntity.entityId
    THEN [k \in (DOMAIN snapshot \ {"cardId"})
                  \cup ({"entityId", "cardName", "cardId"} \cap DOMAIN newEntity) |->
             IF k \in {"entityId", "cardName", "cardId"} THEN newEntity[k] ELSE snapshot[k]]
    ELSE snapshot

\* The loop over the match log.
ResolveMatchLog(gs, newEntity) ==
    [gs EXCEPT !.matchLog =
        [n \in 1..Len(gs.matchLog) |->
            [gs.matchLog[n] EXCEPT
                !.source = ResolveSnapshot(@, newEntity),
                !.targets = [k \in 1..Len(gs.matchLog[n].targets) |->
                                ResolveSnapshot(gs.matchLog[n].targets[k], newEntity)]]]]

AfterMerge(gs, newEntity) ==
    IF isEmpty(newEntity) \/ newEntity.entityId \notin gs.missingEntityIds
    THEN RetagCards(StoreEntity(gs, newEntity), newEntity)
    ELSE ResolveMatchLog(RetagCards(StoreEntity(gs, newEntity), newEntity), newEntity)

resolveEntity(gs, entity) == AfterMerge(gs, MergedEntity(gs, entity))

----------------------------------------------------------------------------
(* The handlers of lineParsers.  Each returns the state it leaves and the  *)
(* boolean the matchesHandler returns; t is the value of Date.now().  The  *)
(* statements of a handler are operators applied one after the other.     *)

Result(gs, updated) == [gameState |-> gs, updated |-> updated]

\* parseInt on the numerals the modelled lines carry; anything else is NaN.
parseInt(s) ==
    CASE s = "0" -> 0
      [] s = "1" -> 1
      [] s = "2" -> 2
      [] s = "3" -> 3
      [] s = "27" -> 27
      [] s = "28" -> 28
      [] s = "30" -> 30
      [] OTHER -> NaN

\* lastTurn.duration = Date.now() - lastTurn.startTime on _.last(turnHistory)
CloseLastTurn(turnHistory, t) ==
    IF Len(turnHistory) = 0
    THEN turnHistory
    ELSE [turnHistory EXCEPT ![Len(turnHistory)] =
            [startTime |-> @.startTime, duration |-> Minus(t, @.startTime)]]

gameStart(groups, gs, t) == Result(start(gs, t), TRUE)

\* playerJoined without the test for two registered players.
playerJoined_noLimit(groups, gs, t) ==
    LET id == parseInt(groups.id)
        name == groups.name
        existingPlayer == getPlayerById(gs, id)
    IN  IF existingPlayer # 0
        THEN IF gs.players[existingPlayer].name = unknownPlayerName
             THEN Result([gs EXCEPT !.players[existingPlayer].name = name], TRUE)
             ELSE Result(gs, FALSE)
        ELSE Result([gs EXCEPT !.players = Append(@, newPlayer(id, name))], TRUE)

playerJoined(groups, gs, t) ==
    LET id == parseInt(groups.id)
        name == groups.name
        existingPlayer == getPlayerById(gs, id)
    IN  IF existingPlayer # 0
        THEN IF gs.players[existingPlayer].name = unknownPlayerName
             THEN Result([gs EXCEPT !.players[existingPlayer].name = name], TRUE)
             ELSE Result(gs, FALSE)
        ELSE IF Len(gs.players) = 2
             THEN Result(gs, FALSE)
             ELSE Result([gs EXCEPT !.players = Append(@, newPlayer(id, name))], TRUE)

mulliganStart(groups, gs, t) == Result([gs EXCEPT !.mulliganActive = "true"], TRUE)

\* mulliganResult with the player's cardCount left out of the difference.
mulliganResult_ignoresCardCount(groups, gs, t) ==
    IF gs.mulliganActive # "true"
    THEN Result(gs, FALSE)
    ELSE LET name == groups.name
             cardsLeft == parseInt(groups.cardsLeft)
             player == getPlayerByName(gs, name)
         IN  IF player = 0
             THEN Result(gs, FALSE)
             ELSE Result([gs EXCEPT !.players[player].cardsReplacedInMulligan =
                             DECK_CARD_COUNT - cardsLeft],
                         TRUE)

mulliganResult(groups, gs, t) ==
    IF gs.mulliganActive # "true"
    THEN Result(gs, FALSE)
    ELSE LET name == groups.name
             cardsLeft == parseInt(groups.cardsLeft)
             player == getPlayerByName(gs, name)
         IN  IF player = 0
             THEN Result(gs, FALSE)
             ELSE Result([gs EXCEPT !.players[player].cardsReplacedInMulligan =
                             DECK_CARD_COUNT - gs.players[player].cardCount - cardsLeft],
                         TRUE)

\* SetTurns without the write to the opponent's flag.
SetTurns_leavesOpponent(gs, player, turn) ==
    [gs EXCEPT !.players[player].turn = turn]

\* player.turn = ...; opponent.turn = !player.turn
SetTurns(gs, player, turn) ==
    LET opponent == getOpponentPlayer(gs, player)
    IN  IF opponent # 0
        THEN [gs EXCEPT !.players[player].turn = turn, !.players[opponent].turn = ~turn]
        ELSE [gs EXCEPT !.players[player].turn = turn]

\* if (player.turn) push a new turn, else close the last one
RecordTurn(gs, player, t) ==
    [gs EXCEPT !.players[player].turnHistory =
        IF gs.players[player].turn THEN Append(@, [startTime |-> t]) ELSE CloseLastTurn(@, t)]

turnChange(groups, gs, t) ==
    LET player == getPlayerByName(gs, groups.playerName)
    IN  IF player = 0
        THEN Result(gs, FALSE)
        ELSE Result(RecordTurn(SetTurns(gs, player, groups.turn = "1"), player, t), TRUE)

\* if (player && status is WON, LOST or TIED) player.status = status
SetStatus(gs, player, status) ==
    IF player # 0 /\ status \in {"WON", "LOST", "TIED"}
    THEN [gs EXCEPT !.players[player].status = status]
    ELSE gs

\* gameState.gameOverCount += 1
CountGameOver(gs) == [gs EXCEPT !.gameOverCount = @ + 1]

\* The body of `if (gameState.gameOverCount >= 2)`
CloseMatch(gs, t) ==
    LET currentPlayer == FindIndex([i \in 1..Len(gs.players) |-> gs.players[i].turn])
    IN  IF currentPlayer # 0
        THEN [gs EXCEPT !.players[currentPlayer].turnHistory = CloseLastTurn(@, t),
                        !.matchDuration = Minus(t, gs.startTime)]
        ELSE [gs EXCEPT !.matchDuration = Minus(t, gs.startTime)]

\* gameOver with the closing branch taken from the first terminal status on.
gameOver_closesAtFirst(groups, gs, t) ==
    LET counted == CountGameOver(
                      SetStatus(gs, getPlayerByName(gs, groups.playerName), groups.status))
    IN  IF counted.gameOverCount >= 1
        THEN Result(CloseMatch(counted, t), TRUE)
        ELSE Result(counted, TRUE)

gameOver(groups, gs, t) ==
    LET counted == CountGameOver(
                      SetStatus(gs, getPlayerByName(gs, groups.playerName), groups.status))
    IN  IF counted.gameOverCount >= 2
        THEN Result(CloseMatch(counted, t), TRUE)
        ELSE Result(counted, TRUE)

\* Array.prototype.filter((x) => x.entityId !== entityId)
RECURSIVE WithoutEntity(_, _)
WithoutEntity(list, entityId) ==
    IF Len(list) = 0
    THEN <<>>
    ELSE IF list[1].entityId = entityId
         THEN WithoutEntity(Tail(list), entityId)
         ELSE <<list[1]>> \o WithoutEntity(Tail(list), entityId)

\* zone-change: positions are derived while the mulligan is active.
AssignPositions(gs, player, opponentPlayer, to) ==
    IF gs.mulliganActive = "true" /\ to.zone \in {Zone.Hand, Zone.Deck}
    THEN IF to.team = Team.Friendly
         THEN [gs EXCEPT !.players[player].position = "bottom",
                         !.players[opponentPlayer].position = "top"]
         ELSE IF to.team = Team.Opposing
              THEN [gs EXCEPT !.players[player].position = "top",
                              !.players[opponentPlayer].position = "bottom"]
              ELSE gs
    ELSE gs

\* zone-change: the source side, `if (fromPlayer) { ... }`.
MoveFrom(gs, from, entityId, cardId, cardDbfId, cardName) ==
    LET fromPlayer == getPlayerByTeam(gs, from.team)
    IN  IF fromPlayer = 0
        THEN gs
        ELSE [gs EXCEPT
                !.players[fromPlayer].cards =
                    IF from.zone \in {Zone.Deck, Zone.Hand}
                    THEN putCards(@, [entityId |-> entityId, state |-> "OTHERS",
                                      cardId |-> cardDbfId, cardName |-> cardName])
                    ELSE @,
                !.players[fromPlayer].cardCount =
                    IF from.zone = Zone.Deck THEN @ - 1 ELSE @,
                !.players[fromPlayer].quests =
                    IF from.zone = Zone.Secret /\ cardId \in DOMAIN questMap
                    THEN WithoutEntity(@, entityId)
                    ELSE @,
                !.players[fromPlayer].secrets =
                    IF from.zone = Zone.Secret /\ cardId \in DOMAIN secretToClass
                    THEN WithoutEntity(@, entityId)
                    ELSE @]

\* zone-change: the destination side, `if (toPlayer) { ... }`.
MoveTo(gs, to, entityId, cardId, cardDbfId, cardName, t) ==
    LET toPlayer == getPlayerByTeam(gs, to.team)
    IN  IF toPlayer = 0
        THEN gs
        ELSE [gs EXCEPT
                !.players[toPlayer].cards =
                    IF to.zone \in {Zone.Deck, Zone.Hand}
                    THEN putCards(@, [entityId |-> entityId, state |-> to.zone,
                                      cardId |-> cardDbfId, cardName |-> cardName,
                                      isSpawnedCard |-> (gs.mulliganActive # "true")])
                    ELSE @,
                !.players[toPlayer].cardCount =
                    IF to.zone = Zone.Deck THEN @ + 1 ELSE @,
                !.players[toPlayer].quests =
                    IF to.zone = Zone.Secret /\ cardId \in DOMAIN questMap
                    THEN Append(@, [class |-> questMap[cardId].class,
                                    requirement |-> questMap[cardId].requirement,
                                    sidequest |-> questMap[cardId].sidequest,
                                    entityId |-> entityId,
                                    cardName |-> cardName,
                                    progress |-> 0,
                                    timestamp |-> t])
                    ELSE @,
                !.players[toPlayer].secrets =
                    IF to.zone = Zone.Secret /\ cardId \in DOMAIN secretToClass
                    THEN Append(@, [entityId |-> entityId,
                                    cardId |-> cardId,
                                    cardClass |-> secretToClass[cardId],
                                    cardName |-> cardName,
                                    timestamp |-> t])
                    ELSE @]

zoneChange(groups, gs, t) ==
    LET cardId == groups.cardId
        cardName == groups.entityName
        playerId == parseInt(groups.playerId)
        entityId == parseInt(groups.entityId)
        from == [team |-> groups.fromTeam, zone |-> groups.fromZone]
        to == [team |-> groups.toTeam, zone |-> groups.toZone]
        cardDbfId == cardData(cardId)
        player == getPlayerById(gs, playerId)
        opponentPlayer == getOpponentPlayer(gs, player)
    IN  IF cardDbfId = Undefined
        THEN Result(gs, FALSE)
        ELSE IF player = 0
             THEN Result(gs, FALSE)
             ELSE IF opponentPlayer = 0
                  THEN Result(gs, FALSE)
                  ELSE Result(
                         MoveTo(
                           MoveFrom(
                             AssignPositions(gs, player, opponentPlayer, to),
                             from, entityId, cardId, cardDbfId, cardName),
                           to, entityId, cardId, cardDbfId, cardName, t),
                         TRUE)

tagChange(groups, gs, t) ==
    LET playerId == parseInt(groups.playerId)
        entityId == parseInt(groups.entityId)
        player == getPlayerById(gs, playerId)
        quest == IF player = 0 THEN 0
                 ELSE FindCard(gs.players[player].quests, entityId)
    IN  IF groups.tag = "QUEST_PROGRESS" /\ player # 0 /\ quest # 0
        THEN Result([gs EXCEPT !.players[player].quests[quest].progress =
                        parseInt(groups.value)], TRUE)
        ELSE Result(gs, FALSE)

\* game-tag-change: GameEntity, NEXT_STEP = MAIN_READY
NextStepTag(gs, groups) ==
    IF groups.entity = "GameEntity" /\ groups.tag = "NEXT_STEP" /\ groups.value = "MAIN_READY"
    THEN [gs EXCEPT !.mulliganActive = "true"]
    ELSE gs

\* game-tag-change: GameEntity, STEP = MAIN_READY
StepTag(gs, groups, t) ==
    LET bottom == getPlayerByPosition(gs, "bottom")
    IN  IF groups.entity = "GameEntity" /\ groups.tag = "STEP" /\ groups.value = "MAIN_READY"
        THEN IF (\A i \in 1..Len(gs.players) : ~gs.players[i].turn) /\ bottom # 0
             THEN [gs EXCEPT !.turnStartTime = t, !.players[bottom].turn = TRUE]
             ELSE [gs EXCEPT !.turnStartTime = t]
        ELSE gs

\* game-tag-change: TIMEOUT
TimeoutTag(gs, groups) ==
    LET player == getPlayerByName(gs, groups.entity)
    IN  IF groups.tag = "TIMEOUT" /\ player # 0
        THEN [gs EXCEPT !.players[player].timeout = parseInt(groups.value)]
        ELSE gs

\* game-tag-change: MULLIGAN_STATE = INPUT
MulliganStateTag(gs, groups) ==
    IF groups.tag = "MULLIGAN_STATE" /\ groups.value = "INPUT"
    THEN [gs EXCEPT !.mulliganActive = "true"]
    ELSE gs

\* game-tag-change: RESOURCES
ResourcesTag(gs, groups) ==
    LET player == getPlayerByName(gs, groups.entity)
    IN  IF groups.tag = "RESOURCES" /\ player # 0
        THEN [gs EXCEPT !.players[player].availableMana = parseInt(groups.value)]
        ELSE gs

gameTagChange(groups, gs, t) ==
    Result(ResourcesTag(
             MulliganStateTag(
               TimeoutTag(
                 StepTag(NextStepTag(gs, groups), groups, t),
                 groups),
               groups),
             groups),
           TRUE)

pastBeginPhase(groups, gs, t) == Result([gs EXCEPT !.beginPhaseActive = FALSE], TRUE)

----------------------------------------------------------------------------
(* lineParserFactory and the ordered list lineParsers *)

label == [GameStatePower |-> "[Power] GameState.DebugPrintPower()",
          EntitiesChosen |-> "[Power] GameState.DebugPrintEntitiesChosen()",
          PowerTaskList |-> "[Power] PowerTaskList.DebugPrintPower()",
          ZoneChanges |-> "[Zone] ZoneChangeList.ProcessChanges()",
          HandleGameStart |-> "[LoadingScreen] MulliganManager.HandleGameStart()"]

\* The parser made by lineParserFactory: a line the full regex does not match
\* returns false and leaves the state alone; for any other line the result
\* is that of the matchesHandler (handled).
lineParserFactory(matches, handled, gs) ==
    IF ~matches THEN Result(gs, FALSE) ELSE handled

\* Does the parser with this name match the line (label, then content regex)?
Matches(name, line) ==
    CASE name = "game-start" ->
            line.label = label.GameStatePower /\ line.kind = "CREATE_GAME"
      [] name = "player-joined" ->
            line.label = label.GameStatePower /\ line.kind = "PLAYER"
      [] name = "mulligan-start" ->
            /\ line.label = label.GameStatePower /\ line.kind = "TAG_CHANGE"
            /\ line.groups.tag = "MULLIGAN_STATE" /\ line.groups.value = "INPUT"
      [] name = "mulligan-result" ->
            line.label = label.EntitiesChosen /\ line.kind = "ENTITIES_CHOSEN"
      [] name = "turn-change" ->
            /\ line.label = label.GameStatePower /\ line.kind = "TAG_CHANGE"
            /\ line.groups.tag = "CURRENT_PLAYER" /\ parseInt(line.groups.value) # NaN
      [] name = "game-over" ->
            /\ line.label = label.PowerTaskList /\ line.kind = "TAG_CHANGE"
            /\ line.groups.tag = "PLAYSTATE"
            /\ line.groups.value \in {"LOST", "WON", "TIED"}
      [] name = "zone-change" ->
            line.label = label.ZoneChanges /\ line.kind = "ZONE"
      [] name = "tag-change" ->
            line.label = label.PowerTaskList /\ line.kind = "TAG_CHANGE_CARD"
      [] name = "game-tag-change" ->
            /\ line.label = label.PowerTaskList
            /\ line.kind \in {"TAG_CHANGE", "TAG_CHANGE_CARD"}
      [] name = "past-begin-phase" ->
            line.label = label.HandleGameStart /\ line.kind = "PAST_BEGIN"
      [] OTHER -> FALSE

\* The captures of a TAG_CHANGE line under the names each content regex uses.
TurnGroups(line) == [playerName |-> line.groups.entity, turn |-> line.groups.value]
StatusGroups(line) == [playerName |-> line.groups.entity, status |-> line.groups.value]

\* What the loop over lineParsers holds after one more parser ran: the state
\* that parser left, and whether it or an earlier one returned true.
Merge(acc, r) == [gameState |-> r.gameState, updated |-> acc.updated \/ r.updated]

\* for (const lineParser of lineParsers) lineParser(line, this.gameState):
\* every parser sees every line, in declared order, on the state the
\* previous parser left.  `updated` is true when some parser returned true.
lineParsers(line, gs, t) ==
    LET p1(acc) == Merge(acc, lineParserFactory(Matches("game-start", line),
                        gameStart(line.groups, acc.gameState, t), acc.gameState))
        p2(acc) == Merge(acc, lineParserFactory(Matches("player-joined", line),
                        playerJoined(line.groups, acc.gameState, t), acc.gameState))
        p3(acc) == Merge(acc, lineParserFactory(Matches("mulligan-start", line),
                        mulliganStart(line.groups, acc.gameState, t), acc.gameState))
        p4(acc) == Merge(acc, lineParserFactory(Matches("mulligan-result", line),
                        mulliganResult(line.groups, acc.gameState, t), acc.gameState))
        p5(acc) == Merge(acc, lineParserFactory(Matches("turn-change", line),
                        turnChange(TurnGroups(line), acc.gameState, t), acc.gameState))
        p6(acc) == Merge(acc, lineParserFactory(Matches("game-over", line),
                        gameOver(StatusGroups(line), acc.gameState, t), acc.gameState))
        p7(acc) == Merge(acc, lineParserFactory(Matches("zone-change", line),
                        zoneChange(line.groups, acc.gameState, t), acc.gameState))
        p8(acc) == Merge(acc, lineParserFactory(Matches("tag-change", line),
                        tagChange(line.groups, acc.gameState, t), acc.gameState))
        p9(acc) == Merge(acc, lineParserFactory(Matches("game-tag-change", line),
                        gameTagChange(line.groups, acc.gameState, t), acc.gameState))
        p10(acc) == Merge(acc, lineParserFactory(Matches("past-begin-phase", line),
                         pastBeginPhase(line.groups, acc.gameState, t), acc.gameState))
    IN  p10(p9(p8(p7(p6(p5(p4(p3(p2(p1(Result(gs, FALSE)))))))))))

----------------------------------------------------------------------------
(* blockParserFactory and the card-init block parser, the last entry of   *)
(* lineParsers.  Its closure holds blockState and indent; it returns      *)
(* false for every line and never writes the game state.  The `indent`    *)
(* capture of a line is the run of blanks after the label.                *)

\* initializeBlockState of card-init; <<>> when it declines.
initializeBlockState(groups, gs) ==
    IF ~active(gs) \/ ~gs.beginPhaseActive
    THEN <<>>
    ELSE <<[entityId |-> groups.entityId, cardId |-> groups.cardId]>>

\* startFullRegex.exec(line) has groups
StartMatches(line) == line.label = label.GameStatePower /\ line.kind = "FULL_ENTITY"

\* makeFullRegex(options.label, /.*/).exec(line) has groups
IndentMatches(line) == line.label = label.GameStatePower

\* The indentation test comparing the width of the capture.
SameIndent_byWidth(line, width) == Len(line.groups.indent) = width

\* parseInt(indentMatches.groups.indent) === indent
SameIndent(line, width) == parseInt(line.groups.indent) = width

\* The history record before the block parser has looked at any line.
NoBlockLog ==
    [line |-> "none", width |-> 0, prior |-> <<>>, initial |-> <<>>,
     forwarded |-> <<>>, broken |-> FALSE]

\* The parser blockParserFactory returns, applied to one line.  blockLog
\* records the line it looked at: a start line or a labelled line seen while
\* a state was held, the width of its indentation, the state held before
\* it, what initializeBlockState returned, the state handed to the block
\* line handler (<<>> when it was not called), and whether a labelled line
\* of another width has been seen since the last start line.
blockParserFactory(line, gs, closure) ==
    IF StartMatches(line)
    THEN [blockState |-> IF initializeBlockState(line.groups, gs) # <<>>
                         THEN initializeBlockState(line.groups, gs)
                         ELSE closure.blockState,
          indent |-> Len(line.groups.indent),
          blockLog |-> [line |-> "start",
                        width |-> Len(line.groups.indent),
                        prior |-> closure.blockState,
                        initial |-> initializeBlockState(line.groups, gs),
                        forwarded |-> <<>>,
                        broken |-> FALSE]]
    ELSE IF closure.blockState = <<>>
         THEN closure
         ELSE IF IndentMatches(line)
              THEN [closure EXCEPT !.blockLog =
                      [line |-> "line",
                       width |-> Len(line.groups.indent),
                       prior |-> closure.blockState,
                       initial |-> <<>>,
                       forwarded |-> IF SameIndent(line, closure.indent)
                                     THEN closure.blockState
                                     ELSE <<>>,
                       broken |-> closure.blockLog.broken
                                    \/ Len(line.groups.indent) # closure.indent]]
              ELSE closure

----------------------------------------------------------------------------
(* Log lines *)

CreateGameLine ==
    [label |-> label.GameStatePower, kind |-> "CREATE_GAME", groups |-> [indent |-> " "]]

PlayerLine(id, name) ==
    [label |-> label.GameStatePower, kind |-> "PLAYER",
     groups |-> [indent |-> " ", id |-> id, name |-> name]]

TagChangeLine(lbl, entity, tag, value) ==
    [label |-> lbl, kind |-> "TAG_CHANGE",
     groups |-> [indent |-> " ", entity |-> entity, tag |-> tag, value |-> value]]

ZoneLine(entityName, entityId, cardId, playerId, fromTeam, fromZone, toTeam, toZone) ==
    [label |-> label.ZoneChanges, kind |-> "ZONE",
     groups |-> [entityName |-> entityName, entityId |-> entityId, cardId |-> cardId,
                 playerId |-> playerId, fromTeam |-> fromTeam, fromZone |-> fromZone,
                 toTeam |-> toTeam, toZone |-> toZone]]

MulliganResultLine(name, cardsLeft) ==
    [label |-> label.EntitiesChosen, kind |-> "ENTITIES_CHOSEN",
     groups |-> [indent |-> " ", name |-> name, cardsLeft |-> cardsLeft]]

PastBeginLine ==
    [label |-> label.HandleGameStart, kind |-> "PAST_BEGIN", groups |-> [indent |-> " "]]

FullEntityLine(blanks, entityId, cardId) ==
    [label |-> label.GameStatePower, kind |-> "FULL_ENTITY",
     groups |-> [indent |-> blanks, entityId |-> entityId, cardId |-> cardId]]

\* A `tag=... value=...` line of a FULL_ENTITY block.
BlockTagLine(blanks, tag, value) ==
    [label |-> label.GameStatePower, kind |-> "TAG",
     groups |-> [indent |-> blanks, tag |-> tag, value |-> value]]

----------------------------------------------------------------------------
(* The pipeline, one line at a time.  Every action hands one line to all   *)
(* of lineParsers, as the loop body of parseLines does.                    *)

PlayerIds == {"1", "2"}
PlayerNames == {"Alice", "Bob"}
\* The player-joined lines of a match: each id with its own name.
PlayerNameOf(id) == IF id = "1" THEN "Alice" ELSE "Bob"
EntityIds == {"1"}
KnownCardIds == {"CS2_029"}
UnknownCardId == "XXX_000"
\* The two ends of a zone-change: a side and a zone, or nothing (the optional
\* groups of the regex did not take part in the match).
ZoneEnds == {[team |-> "", zone |-> ""]} \cup
            [team : {Team.Friendly, Team.Opposing}, zone : {Zone.Deck, Zone.Hand, "PLAY"}]

\* The coarse state a destination zone maps to.
CardStateOf(zone) == IF zone \in {Zone.Deck, Zone.Hand} THEN zone ELSE "OTHERS"

InitTail ==
    /\ lastFileSize = 0
    /\ watcher = FALSE
    /\ fileSize = 0
    /\ seenSize = Undefined
    /\ timerId = FALSE
    /\ lastArgs = Undefined
    /\ throttled = FALSE
    /\ inflight = <<>>
    /\ delivered = [b \in {} |-> 0]
    /\ truncated = FALSE
    /\ stopped = FALSE

InitNotify ==
    /\ options = [updateEveryTurn |-> FALSE]
    /\ emitted = 0
    /\ lastBatch = [lines |-> 0, mutated |-> FALSE, emits |-> 0]

InitGame ==
    /\ gameState = NewGameState
    /\ now = 1
    /\ lastDest = [e \in {} |-> ""]

InitBlock ==
    /\ blockState = <<>>
    /\ indent = 0
    /\ blockLog = NoBlockLog

InitLog ==
    /\ heap = <<>>
    /\ logEntry = <<>>
    /\ lastOp = NoOp

Init == InitGame /\ InitTail /\ InitNotify /\ InitBlock /\ InitLog

Tick ==
    /\ now < MaxTime
    /\ now' = now + 1
    /\ UNCHANGED <<gameState, lastDest, tailVars, logVars, notifyVars, blockVars>>

\* The block parser, last of lineParsers, on the state the others left.
ApplyBlockParser(line, gs) ==
    LET c == blockParserFactory(line, gs,
                [blockState |-> blockState, indent |-> indent, blockLog |-> blockLog])
    IN  /\ blockState' = c.blockState
        /\ indent' = c.indent
        /\ blockLog' = c.blockLog

ApplyLine(line) ==
    /\ gameState' = lineParsers(line, gameState, now).gameState
    /\ ApplyBlockParser(line, gameState')
    /\ UNCHANGED <<now, tailVars, logVars, notifyVars>>

GameStart ==
    /\ ApplyLine(CreateGameLine)
    /\ lastDest' = [e \in {} |-> ""]

PlayerJoined ==
    /\ \E id \in PlayerIds : ApplyLine(PlayerLine(id, PlayerNameOf(id)))
    /\ UNCHANGED lastDest

MulliganStart ==
    /\ ApplyLine(TagChangeLine(label.GameStatePower, "GameEntity", "MULLIGAN_STATE", "INPUT"))
    /\ UNCHANGED lastDest

TurnChange ==
    /\ \E name \in PlayerNames, turn \in {"0", "1"} :
          /\ \A i \in 1..Len(gameState.players) :
                Len(gameState.players[i].turnHistory) < MaxTurns
          /\ ApplyLine(TagChangeLine(label.GameStatePower, name, "CURRENT_PLAYER", turn))
    /\ UNCHANGED lastDest

GameOver ==
    /\ gameState.gameOverCount < MaxGameOver
    /\ \E name \in PlayerNames, status \in {"WON", "LOST"} :
          ApplyLine(TagChangeLine(label.PowerTaskList, name, "PLAYSTATE", status))
    /\ UNCHANGED lastDest

\* TAG_CHANGE Entity=GameEntity tag=STEP value=MAIN_READY
StepMainReady ==
    /\ ApplyLine(TagChangeLine(label.PowerTaskList, "GameEntity", "STEP", "MAIN_READY"))
    /\ UNCHANGED lastDest

\* The zone-change lines: every move of a card the table knows, and one line
\* for a card it does not know (the handler returns before it reads the move).
ZoneLines ==
    {ZoneLine("Fireball", entityId, cardId, playerId, from.team, from.zone, to.team, to.zone) :
        entityId \in EntityIds, cardId \in KnownCardIds, playerId \in PlayerIds,
        from \in ZoneEnds, to \in ZoneEnds}
    \cup {ZoneLine("Fireball", "1", UnknownCardId, "1", "", "", Team.Friendly, Zone.Hand)}

\* One zone-change line through the pipeline.
ApplyZoneLine(line) ==
    LET r == lineParsers(line, gameState, now)
        entityId == parseInt(line.groups.entityId)
    IN  /\ \A i \in 1..Len(r.gameState.players) :
              /\ r.gameState.players[i].cardCount <= MaxCardCount
              /\ r.gameState.players[i].cardCount >= 0 - MaxCardCount
        /\ gameState' = r.gameState
        /\ lastDest' = IF r.updated
                       THEN [e \in DOMAIN lastDest \cup {entityId} |->
                                IF e = entityId
                                THEN CardStateOf(line.groups.toZone)
                                ELSE lastDest[e]]
                       ELSE lastDest
        /\ ApplyBlockParser(line, gameState')
        /\ UNCHANGED <<now, tailVars, logVars, notifyVars>>

ZoneChange == \E line \in ZoneLines : ApplyZoneLine(line)

\* The entity ids the incoming facts are about, and what a fact may carry.
FactIds == {1}
FactNames == {UNKNOWN_CARDNAME, "Fireball"}
FactTags == {[CORRUPT |-> "1"], [CORRUPT |-> "0"], [CORRUPTEDCARD |-> "1"]}

\* The arguments of resolveEntity: an entityId and any of cardName, cardId, tags.
EntityFacts ==
    {[entityId |-> e] @@ name @@ cardId @@ tags :
        e \in FactIds,
        name \in {<<>>} \cup {[cardName |-> n] : n \in FactNames},
        cardId \in {<<>>, [cardId |-> cardData("CS2_029")]},
        tags \in {<<>>} \cup {[tags |-> t] : t \in FactTags}}

Snapshot(entityId, cardName) ==
    [entityId |-> entityId, cardName |-> cardName, player |-> "bottom"]

\* new MatchLogEntry(type, source) with its targets added.
LogEntry(source, targets) ==
    [type |-> "play", manaSpent |-> 0, source |-> source, targets |-> targets]

LogEntries ==
    {LogEntry(Snapshot(1, UNKNOWN_CARDNAME), <<>>),
     LogEntry(Snapshot(2, "Frostbolt"), <<Snapshot(1, UNKNOWN_CARDNAME)>>)}

\* A card with entity id 1 shows up in the friendly hand.
CardSeen ==
    ApplyZoneLine(ZoneLine("Fireball", "1", "CS2_029", "1", "", "", Team.Friendly, Zone.Hand))

AddMatchLogEntry ==
    /\ Len(gameState.matchLog) < MaxMatchLog
    /\ \E entry \in LogEntries : gameState' = addMatchLogEntry(gameState, <<entry>>)
    /\ UNCHANGED <<now, lastDest, tailVars, logVars, notifyVars, blockVars>>

ResolveEntity ==
    /\ \E entity \in EntityFacts : gameState' = resolveEntity(gameState, entity)
    /\ UNCHANGED <<now, lastDest, tailVars, logVars, notifyVars, blockVars>>

\* The indentations of the lines of a block: two blanks and four.
Indents == {"  ", "    "}
BlockEntityIds == {"4", "5"}

PastBeginPhase ==
    /\ ApplyLine(PastBeginLine)
    /\ UNCHANGED lastDest

FullEntity ==
    /\ \E blanks \in Indents, entityId \in BlockEntityIds :
          ApplyLine(FullEntityLine(blanks, entityId, "CS2_029"))
    /\ UNCHANGED lastDest

BlockLine ==
    /\ \E blanks \in Indents : ApplyLine(BlockTagLine(blanks, "ZONE", "DECK"))
    /\ UNCHANGED lastDest

\* A match: start, joins, turns and terminal statuses, with the clock running.
MatchNext == GameStart \/ PlayerJoined \/ TurnChange \/ GameOver \/ Tick

MatchSpec == Init /\ [][MatchNext]_vars

\* Card movement between zones of two registered players.
ZoneNext == PlayerJoined \/ MulliganStart \/ ZoneChange

ZoneSpec == Init /\ [][ZoneNext]_vars

\* Turns: joins, turn changes and the MAIN_READY step, across match restarts,
\* all within one tick of the clock.
TurnNext == GameStart \/ PlayerJoined \/ TurnChange \/ StepMainReady

TurnSpec == Init /\ [][TurnNext]_vars

\* Entities: cards in hand, match-log entries and the facts that resolve them.
EntityNext == GameStart \/ PlayerJoined \/ CardSeen \/ AddMatchLogEntry \/ ResolveEntity

EntitySpec == Init /\ [][EntityNext]_vars

\* The EntitiesCount values of the mulligan-result lines.
CardsLeftValues == {"27", "28", "30"}

MulliganResult ==
    /\ \E name \in PlayerNames, cardsLeft \in CardsLeftValues :
          ApplyLine(MulliganResultLine(name, cardsLeft))
    /\ UNCHANGED lastDest

\* A card of player 1 enters the friendly deck.
DeckCard ==
    ApplyZoneLine(ZoneLine("Fireball", "1", "CS2_029", "1", "", "", Team.Friendly, Zone.Deck))

\* The mulligan: joins, the start of the mulligan, cards entering the deck
\* and the mulligan results.
MulliganNext == GameStart \/ PlayerJoined \/ MulliganStart \/ DeckCard \/ MulliganResult

MulliganSpec == Init /\ [][MulliganNext]_vars

\* Zone-change lines about two entities on the friendly side, the first of
\* them seen under two card ids.
CardEntityIds == {"1", "2"}
CardIdsOf(entityId) == IF entityId = "1" THEN {"CS2_029", "EX1_610"} ELSE {"CS2_029"}
CardEnds == {[team |-> "", zone |-> ""],
             [team |-> Team.Friendly, zone |-> Zone.Deck],
             [team |-> Team.Friendly, zone |-> Zone.Hand]}

CardLines ==
    UNION {{ZoneLine("Fireball", entityId, cardId, "1", from.team, from.zone, to.team, to.zone) :
               cardId \in CardIdsOf(entityId), from \in CardEnds, to \in CardEnds} :
           entityId \in CardEntityIds}

\* One of these lines through the pipeline.
ApplyCardLine(line) ==
    LET r == lineParsers(line, gameState, now)
    IN  /\ \A i \in 1..Len(r.gameState.players) :
              /\ r.gameState.players[i].cardCount <= MaxCardCount
              /\ r.gameState.players[i].cardCount >= 0 - MaxCardCount
        /\ gameState' = r.gameState
        /\ ApplyBlockParser(line, gameState')
        /\ UNCHANGED <<now, lastDest, tailVars, logVars, notifyVars>>

CardChange == \E line \in CardLines : ApplyCardLine(line)

\* The player-joined lines in the order the client prints them: PlayerID=1,
\* then PlayerID=2.
PlayerJoinedInOrder ==
    /\ \E id \in PlayerIds :
          /\ parseInt(id) = Len(gameState.players) + 1
          /\ ApplyLine(PlayerLine(id, PlayerNameOf(id)))
    /\ UNCHANGED lastDest

\* The cards collections: players, the mulligan and zone-change lines.
CardNext == PlayerJoinedInOrder \/ MulliganStart \/ CardChange

CardSpec == Init /\ [][CardNext]_vars

\* Zone-change lines about one entity that is a secret under one card id
\* and a quest under the other, moving between the friendly hand and the
\* friendly secret zone.
SecretEntityIds == {"1"}
SecretCardIds == {"EX1_610", "UNG_940"}
SecretEnds == {[team |-> "", zone |-> ""],
               [team |-> Team.Friendly, zone |-> Zone.Hand],
               [team |-> Team.Friendly, zone |-> Zone.Secret]}

SecretLines ==
    {ZoneLine("Trap", entityId, cardId, "1", from.team, from.zone, to.team, to.zone) :
        entityId \in SecretEntityIds, cardId \in SecretCardIds,
        from \in SecretEnds, to \in SecretEnds}

\* One of these lines through the pipeline; lastDest records, per entity, the
\* destination and the card id of the latest line the handler applied.
ApplySecretLine(line) ==
    LET r == lineParsers(line, gameState, now)
        entityId == parseInt(line.groups.entityId)
    IN  /\ \A i \in 1..Len(r.gameState.players) :
              /\ Len(r.gameState.players[i].secrets) <= MaxSecrets
              /\ Len(r.gameState.players[i].quests) <= MaxSecrets
        /\ gameState' = r.gameState
        /\ lastDest' = IF r.updated
                       THEN [e \in DOMAIN lastDest \cup {entityId} |->
                                IF e = entityId
                                THEN [team |-> line.groups.toTeam,
                                      zone |-> line.groups.toZone,
                                      cardId |-> line.groups.cardId]
                                ELSE lastDest[e]]
                       ELSE lastDest
        /\ ApplyBlockParser(line, gameState')
        /\ UNCHANGED <<now, tailVars, logVars, notifyVars>>

SecretChange == \E line \in SecretLines : ApplySecretLine(line)

\* The secret zone: players, the mulligan and zone-change lines.
SecretNext == PlayerJoinedInOrder \/ MulliganStart \/ SecretChange

SecretSpec == Init /\ [][SecretNext]_vars

\* The entities the match-log readers pass around, and the extra properties
\* of a source or target.
LogEntityIds == {1, 2}
LogTags == {<<>>, [CORRUPT |-> "1"]}
LogProps == {<<>>, [damage |-> 2]}
LogTypes == {"attack", "play"}

RecordedNow == IF logEntry = <<>> THEN NoRecord ELSE Recorded(heap, logEntry[1])

\* A reader builds a CardEntity from a line.
NewEntity ==
    /\ Len(heap) < MaxEntities
    /\ \E id \in LogEntityIds, tags \in LogTags :
          heap' = Append(heap, [type |-> "card", entityId |-> id, cardName |-> "Fireball",
                                player |-> "bottom", tags |-> tags])
    /\ lastOp' = [op |-> "new", entity |-> Len(heap) + 1, before |-> <<>>,
                  recorded |-> RecordedNow]
    /\ UNCHANGED <<gameVars, tailVars, notifyVars, blockVars, logEntry>>

\* new MatchLogEntry(type, source)
Construct ==
    /\ \E source \in 1..Len(heap), type \in LogTypes :
          LET r == newMatchLogEntry(heap, type, source)
          IN  /\ heap' = r.heap
              /\ logEntry' = <<r.entry>>
              /\ lastOp' = [op |-> "constructor", entity |-> source, before |-> heap[source],
                            recorded |-> NoRecord]
    /\ UNCHANGED <<gameVars, tailVars, notifyVars, blockVars>>

\* entry.setSource(entity, props)
SetSource ==
    /\ logEntry # <<>>
    /\ \E entity \in 1..Len(heap), props \in LogProps :
          LET r == setSource(heap, logEntry[1], entity, props)
          IN  /\ heap' = r.heap
              /\ logEntry' = <<r.entry>>
              /\ lastOp' = [op |-> "setSource", entity |-> entity, before |-> heap[entity],
                            recorded |-> RecordedNow]
    /\ UNCHANGED <<gameVars, tailVars, notifyVars, blockVars>>

\* entry.addTarget(entity, props)
AddTarget ==
    /\ logEntry # <<>>
    /\ \E entity \in 0..Len(heap), props \in LogProps :
          LET r == addTarget(heap, logEntry[1], entity, props)
          IN  /\ heap' = r.heap
              /\ logEntry' = <<r.entry>>
              /\ lastOp' = [op |-> "addTarget", entity |-> entity,
                            before |-> IF entity = 0 THEN <<>> ELSE heap[entity],
                            recorded |-> RecordedNow]
    /\ UNCHANGED <<gameVars, tailVars, notifyVars, blockVars>>

\* The holder of a CardEntity learns its name and writes it into the object.
ChangeEntity ==
    /\ \E entity \in 1..Len(heap) :
          /\ heap[entity].cardName # "Frostbolt"
          /\ heap' = [heap EXCEPT ![entity].cardName = "Frostbolt"]
          /\ lastOp' = [op |-> "change", entity |-> entity, before |-> heap[entity],
                        recorded |-> RecordedNow]
    /\ UNCHANGED <<gameVars, tailVars, notifyVars, blockVars, logEntry>>

\* Match-log entries: entities, an entry, its source and its targets.
LogNext == NewEntity \/ Construct \/ SetSource \/ AddTarget \/ ChangeEntity

LogSpec == Init /\ [][LogNext]_vars

\* The player-joined lines of any log: three ids, and names that include
\* the placeholder the client prints before it knows the opponent.
JoinIds == {"1", "2", "3"}
JoinNames == {"Alice", "Bob", unknownPlayerName}

PlayerJoinedAny ==
    /\ \E id \in JoinIds, name \in JoinNames : ApplyLine(PlayerLine(id, name))
    /\ UNCHANGED lastDest

\* Registration: any player-joined lines, across match restarts.
JoinNext == GameStart \/ PlayerJoinedAny \/ Tick

JoinSpec == Init /\ [][JoinNext]_vars

\* Blocks: FULL_ENTITY start lines and the lines under them, in and out of
\* the begin phase of a match and after its end.
BlockNext == GameStart \/ PastBeginPhase \/ GameOver \/ FullEntity \/ BlockLine

BlockSpec == Init /\ [][BlockNext]_vars

----------------------------------------------------------------------------
(* Claims about the cards collections (ZoneSpec) *)

PlayerIndexes == 1..Len(gameState.players)

EntityNumbers == {parseInt(e) : e \in EntityIds}

\* The players whose cards collection holds a card with this entityId.
HoldersOf(entityId) ==
    {i \in PlayerIndexes : FindCard(gameState.players[i].cards, entityId) # 0}

\* C1: after any sequence of zone-change lines every entityId is in the
\* cards collection of at most one player.
C1_EntityInOneCollection ==
    \A e \in EntityNumbers : Cardinality(HoldersOf(e)) <= 1

\* C2: the state of every tracked card is the destination zone of the latest
\* zone-change applied for its entityId, mapped to DECK, HAND or OTHERS.
C2_StateIsLatestDestination ==
    \A i \in PlayerIndexes :
        \A k \in 1..Len(gameState.players[i].cards) :
            LET card == gameState.players[i].cards[k]
            IN  card.entityId \in DOMAIN lastDest => card.state = lastDest[card.entityId]

----------------------------------------------------------------------------
(* Claims about the end of a match (MatchSpec) *)

\* The step applies a game-over line: nothing else raises gameOverCount.
GameOverLineApplied == gameState'.gameOverCount = gameState.gameOverCount + 1

TurnHistoriesUnchanged ==
    /\ Len(gameState'.players) = Len(gameState.players)
    /\ \A i \in PlayerIndexes :
          gameState'.players[i].turnHistory = gameState.players[i].turnHistory

\* C8: gameOverCount stays within 0..2 (terminal at 2) in every reachable
\* state of a match.
C8_GameOverCountAtMostTwo == gameState.gameOverCount \in 0..2

\* C9: matchDuration is stamped once: a third or later game-over line leaves
\* matchDuration and the turn durations unchanged.
C9_NoRestampAfterSecond ==
    [][(GameOverLineApplied /\ gameState.gameOverCount >= 2)
         => /\ gameState'.matchDuration = gameState.matchDuration
            /\ TurnHistoriesUnchanged]_vars

\* C10: the second game-over line of a started match sets matchDuration to
\* now - startTime and the duration of the last turnHistory entry of the
\* player whose turn it is to now - that entry's startTime; the first
\* game-over line changes neither.
C10_SecondGameOverCloses ==
    [][GameOverLineApplied =>
        /\ (gameState.gameOverCount = 1 /\ gameState.startTime > 0) =>
              /\ gameState'.matchDuration = now - gameState.startTime
              /\ \A i \in PlayerIndexes :
                    (gameState.players[i].turn /\ Len(gameState.players[i].turnHistory) > 0) =>
                        LET before == Last(gameState.players[i].turnHistory)
                            after == Last(gameState'.players[i].turnHistory)
                        IN  /\ "duration" \in DOMAIN after
                            /\ after.duration = now - before.startTime
                            /\ after.startTime = before.startTime
        /\ gameState.gameOverCount = 0 =>
              /\ gameState'.matchDuration = gameState.matchDuration
              /\ TurnHistoriesUnchanged]_vars

\* C10 witness: a match closed by its second game-over line, some time after
\* its start and after the start of the running turn.
C10_Witness ==
    /\ gameState.gameOverCount = 2
    /\ gameState.startTime > 0
    /\ gameState.matchDuration = now - gameState.startTime
    /\ gameState.matchDuration >= 1
    /\ \E i \in PlayerIndexes :
          /\ gameState.players[i].turn
          /\ Len(gameState.players[i].turnHistory) > 0
          /\ "duration" \in DOMAIN Last(gameState.players[i].turnHistory)
          /\ Last(gameState.players[i].turnHistory).duration >= 1
          /\ Last(gameState.players[i].turnHistory).duration
                = now - Last(gameState.players[i].turnHistory).startTime

\* C19: a new match begins with a fresh GameState: right after a match-start
\* line every field other than startTime has its initial value, whatever
\* the previous match left behind.
C19_StartGivesFreshState ==
    [][gameState' = start(gameState, now)
          => gameState' = [NewGameState EXCEPT !.startTime = now]]_vars

\* The lines of a soft data-miss: a player name or id that is not
\* registered, or a card id the lookup table does not have.
UnregisteredNames == {name \in PlayerNames : getPlayerByName(gameState, name) = 0}

UnregisteredIds == {id \in PlayerIds : getPlayerById(gameState, parseInt(id)) = 0}

MissZoneGroups ==
    {ZoneLine("Fireball", "1", UnknownCardId, id, "", "", Team.Friendly, Zone.Hand).groups :
        id \in PlayerIds}
    \cup {ZoneLine("Fireball", "1", "CS2_029", id, "", "", Team.Friendly, Zone.Hand).groups :
            id \in UnregisteredIds}

\* The handlers other than game-over leave the state alone on a data-miss.
MissLeavesStateExceptGameOver ==
    /\ \A name \in UnregisteredNames :
          /\ \A turn \in {"0", "1"} :
                turnChange([playerName |-> name, turn |-> turn], gameState, now)
                    = Result(gameState, FALSE)
          /\ mulliganResult([name |-> name, cardsLeft |-> "3"], gameState, now)
                = Result(gameState, FALSE)
    /\ \A groups \in MissZoneGroups :
          zoneChange(groups, gameState, now) = Result(gameState, FALSE)

\* C20: a soft data-miss leaves the state untouched: a zone-change,
\* mulligan-result, turn-change or game-over handler applied to a line that
\* references an unknown card id or an unregistered player returns false and
\* leaves GameState as it was.
C20_DataMissLeavesState ==
    /\ MissLeavesStateExceptGameOver
    /\ \A name \in UnregisteredNames, status \in {"WON", "LOST", "TIED"} :
          gameOver([playerName |-> name, status |-> status], gameState, now)
              = Result(gameState, FALSE)

----------------------------------------------------------------------------
(* Claims about turns (TurnSpec) *)

TurnHolders == {i \in PlayerIndexes : gameState.players[i].turn}

AtMostOneTurn == Cardinality(TurnHolders) <= 1

ExactlyOneTurn == Cardinality(TurnHolders) = 1

\* The step applies a turn-change line that names a registered player.
TurnLineApplied(name, turn) ==
    LET r == turnChange([playerName |-> name, turn |-> turn], gameState, now)
    IN  r.updated /\ gameState' = r.gameState

\* C11: in every reachable state at most one player has turn = true, and
\* right after a turn-change line is applied with two registered players
\* exactly one of the two has it.
C11_OneTurnHolder ==
    /\ []AtMostOneTurn
    /\ [][\A name \in PlayerNames, turn \in {"0", "1"} :
            (Len(gameState.players) = 2 /\ TurnLineApplied(name, turn))
                => ExactlyOneTurn']_vars

\* C11 witness: two registered players, the MAIN_READY step has been seen and
\* a turn-change line has moved the turn from one player to the other.
C11_Witness ==
    /\ Len(gameState.players) = 2
    /\ gameState.turnStartTime # Undefined
    /\ gameState.players[2].turn
    /\ ~gameState.players[1].turn
    /\ Len(gameState.players[1].turnHistory) > 0
    /\ Len(gameState.players[2].turnHistory) > 0

\* C12: after any turn-change line (value=1 or value=0, two registered
\* players) the player who now holds the turn has a newly appended
\* turnHistory entry without duration, and the last entry of the previous
\* turn holder has its duration set.
C12_TurnChangeOpensAndCloses ==
    [][\A name \in PlayerNames, turn \in {"0", "1"} :
        (Len(gameState.players) = 2 /\ TurnLineApplied(name, turn)) =>
            \A i \in PlayerIndexes :
                /\ gameState'.players[i].turn =>
                      /\ Len(gameState'.players[i].turnHistory)
                            = Len(gameState.players[i].turnHistory) + 1
                      /\ "duration" \notin DOMAIN Last(gameState'.players[i].turnHistory)
                /\ (gameState.players[i].turn /\ ~gameState'.players[i].turn
                        /\ Len(gameState.players[i].turnHistory) > 0) =>
                      "duration" \in DOMAIN Last(gameState'.players[i].turnHistory)]_vars

----------------------------------------------------------------------------
(* Claims about entity resolution (EntitySpec) *)

\* The snapshots (sources and targets) of a match log.
SnapshotsOf(matchLog) ==
    {matchLog[n].source : n \in 1..Len(matchLog)}
    \cup UNION {{matchLog[n].targets[k] : k \in 1..Len(matchLog[n].targets)} :
                    n \in 1..Len(matchLog)}

\* The cards of all players.
CardsOf(gs) ==
    UNION {{gs.players[i].cards[k] : k \in 1..Len(gs.players[i].cards)} :
              i \in 1..Len(gs.players)}

\* The match-log half of C13: no snapshot of the entity is left unnamed.
NoUnnamedSnapshot(gs, entityId) ==
    \A snapshot \in SnapshotsOf(gs.matchLog) :
        snapshot.entityId = entityId =>
            /\ ~isEmpty(snapshot)
            /\ snapshot.cardName = gs.entities[entityId].cardName

\* The cards half of C13: the tags of the entity's cards are those derived
\* from the merged tag map.
TagsRecomputed(gs, entityId) ==
    \A card \in CardsOf(gs) :
        card.entityId = entityId => card.tags = identifySpecialTags(gs.entities[entityId])

\* C13: after resolveEntity with a non-empty, non-sentinel name for entity e,
\* no snapshot of e in the match log is left with an empty or sentinel name
\* and every card of e has its derived tags recomputed from the merged tags.
C13_ResolveUpdatesLogAndTags ==
    \A entity \in EntityFacts :
        ~isEmpty(entity) =>
            /\ NoUnnamedSnapshot(resolveEntity(gameState, entity), entity.entityId)
            /\ TagsRecomputed(resolveEntity(gameState, entity), entity.entityId)

\* C14: resolveEntity is idempotent: a second call with the same data leaves
\* the entity map, the cards and the match log as the first call left them.
C14_ResolveIdempotent ==
    \A entity \in EntityFacts :
        resolveEntity(resolveEntity(gameState, entity), entity)
            = resolveEntity(gameState, entity)

\* C14 witness: entity 1 has been resolved: it is in the entity map with a
\* name, a snapshot flagged as missing now carries that name and the card id,
\* and its card in hand carries a derived tag.
C14_Witness ==
    /\ 1 \in DOMAIN gameState.entities
    /\ gameState.entities[1].cardName = "Fireball"
    /\ 1 \in gameState.missingEntityIds
    /\ \E snapshot \in SnapshotsOf(gameState.matchLog) :
          /\ snapshot.entityId = 1
          /\ snapshot.cardName = "Fireball"
          /\ "cardId" \in DOMAIN snapshot
    /\ \E card \in CardsOf(gameState) : card.entityId = 1 /\ card.tags # <<>>

\* C15: entity facts are monotonically refined: across resolveEntity calls
\* the entityId never changes and a known cardName, cardId or tag is never
\* replaced by an unknown one.
C15_KnownNeverReplaced ==
    \A entity \in EntityFacts :
        entity.entityId \in DOMAIN gameState.entities =>
            LET before == gameState.entities[entity.entityId]
                after == resolveEntity(gameState, entity).entities[entity.entityId]
            IN  /\ after.entityId = before.entityId
                /\ ~isEmpty(before) => ~isEmpty(after)
                /\ "cardId" \in DOMAIN before => "cardId" \in DOMAIN after
                /\ DOMAIN before.tags \subseteq DOMAIN after.tags

----------------------------------------------------------------------------
(* Claims about the mulligan (MulliganSpec) *)

\* C21: the mulligan-result handler sets the named player's
\* cardsReplacedInMulligan to 30 - cardCount - EntitiesCount, only when
\* mulliganActive is true and the name is registered; otherwise it returns
\* false and changes nothing.
C21_MulliganResultFormula ==
    \A name \in PlayerNames, cardsLeft \in CardsLeftValues :
        LET r == mulliganResult([name |-> name, cardsLeft |-> cardsLeft], gameState, now)
            player == getPlayerByName(gameState, name)
        IN  IF gameState.mulliganActive = "true" /\ player # 0
            THEN /\ r.updated
                 /\ r.gameState =
                       [gameState EXCEPT !.players[player].cardsReplacedInMulligan =
                           30 - gameState.players[player].cardCount - parseInt(cardsLeft)]
            ELSE r = Result(gameState, FALSE)

\* C21 witness: in an active mulligan, a player holding no deck card has 3
\* cards replaced (EntitiesCount 27) and one holding one deck card has 2.
C21_Witness ==
    /\ gameState.mulliganActive = "true"
    /\ Len(gameState.players) = 2
    /\ \E i, j \in PlayerIndexes :
          /\ gameState.players[i].cardCount = 0
          /\ gameState.players[i].cardsReplacedInMulligan = 3
          /\ gameState.players[j].cardCount = 1
          /\ gameState.players[j].cardsReplacedInMulligan = 2

----------------------------------------------------------------------------
(* Claims about positions (ZoneSpec) *)

\* newPlayer gives every player the position "bottom"; only the zone-change
\* handler writes "top", so a player at the top means positions were assigned.
PositionsAssigned ==
    \E i \in PlayerIndexes : gameState.players[i].position = "top"

\* C25: once a mulligan-phase zone-change into hand or deck has assigned
\* positions, the two players hold opposite positions (one top, one bottom)
\* and no later line of the same match changes either player's position.
C25_PositionsStable ==
    [][PositionsAssigned =>
          /\ Len(gameState.players) = 2
          /\ gameState.players[1].position # gameState.players[2].position
          /\ \A i \in PlayerIndexes :
                gameState'.players[i].position = gameState.players[i].position]_vars

----------------------------------------------------------------------------
(* Claims about match-log entries (LogSpec) *)

\* The last step built an entry or set a source or a target from an entity.
TookSnapshot ==
    lastOp.op \in {"constructor", "setSource", "addTarget"} /\ lastOp.entity # 0

\* C28: a match-log source/target is a snapshot taken at action time:
\* constructing a MatchLogEntry or calling setSource/addTarget (with extra
\* properties such as damage) does not modify the CardEntity passed in, and
\* a later change to that entity object does not alter the already recorded
\* source/target.
C28_SnapshotAtActionTime ==
    /\ TookSnapshot => heap[lastOp.entity] = lastOp.before
    /\ (lastOp.op \in {"change", "addTarget"} /\ lastOp.recorded # NoRecord)
          => Recorded(heap, logEntry[1]).source = lastOp.recorded.source
    /\ (lastOp.op \in {"change", "addTarget", "setSource"} /\ lastOp.recorded # NoRecord)
          => \A k \in 1..Len(lastOp.recorded.targets) :
                Recorded(heap, logEntry[1]).targets[k] = lastOp.recorded.targets[k]

\* The first part of C28 alone: the entity passed in is left as it was.
C28_EntityNotModified == TookSnapshot => heap[lastOp.entity] = lastOp.before

\* The second part of C28 alone: a change of an entity leaves what an entry
\* recorded.
C28_RecordKept ==
    (lastOp.op = "change" /\ lastOp.recorded # NoRecord)
        => Recorded(heap, logEntry[1]) = lastOp.recorded

----------------------------------------------------------------------------
(* Claims about one cards collection (CardSpec) *)

\* No two cards of the list have the same entityId.
UniqueEntityIds(cardList) ==
    \A k, l \in 1..Len(cardList) :
        cardList[k].entityId = cardList[l].entityId => k = l

\* A step keeps every card of every player at its place in the list, with
\* its entityId and its isSpawnedCard flag.
CardsKeptInPlace ==
    \A i \in PlayerIndexes :
        LET old == gameState.players[i].cards
            new == gameState'.players[i].cards
        IN  /\ Len(new) >= Len(old)
            /\ \A k \in 1..Len(old) :
                  /\ new[k].entityId = old[k].entityId
                  /\ new[k].isSpawnedCard = old[k].isSpawnedCard
                  /\ new[k].tags = old[k].tags

\* A zone-change into the hand or deck of a player who already holds the
\* entity leaves the list as long as it was and writes the card id, the name
\* and the state of the line into the card it found.
KnownCardUpdated ==
    \A line \in CardLines :
        LET r == zoneChange(line.groups, gameState, now)
            entityId == parseInt(line.groups.entityId)
            toPlayer == getPlayerByTeam(gameState, line.groups.toTeam)
            card == IF toPlayer = 0 THEN 0
                    ELSE FindCard(gameState.players[toPlayer].cards, entityId)
        IN  (r.updated /\ card # 0 /\ line.groups.toZone \in {Zone.Deck, Zone.Hand})
            => /\ Len(r.gameState.players[toPlayer].cards)
                     = Len(gameState.players[toPlayer].cards)
               /\ r.gameState.players[toPlayer].cards[card] =
                     [gameState.players[toPlayer].cards[card] EXCEPT
                         !.cardId = cardData(line.groups.cardId),
                         !.cardName = line.groups.entityName,
                         !.state = line.groups.toZone]

\* C23: within one player's cards collection each entityId occurs at most
\* once after any sequence of zone-change lines; a later fact for a known
\* entityId updates the existing card in place (cardId, cardName, state) and
\* never changes its isSpawnedCard flag.
C23_OneCardPerEntity ==
    /\ [](\A i \in PlayerIndexes : UniqueEntityIds(gameState.players[i].cards))
    /\ []KnownCardUpdated
    /\ [][CardsKeptInPlace]_vars

\* C23 witness: during the mulligan a player holds two cards, one of them
\* created before the mulligan (spawned) and since moved out of hand and
\* deck by a later fact, which also changed its card id.
C23_Witness ==
    /\ gameState.mulliganActive = "true"
    /\ \E i \in PlayerIndexes :
          /\ Len(gameState.players[i].cards) = 2
          /\ \E k \in 1..2 :
                /\ gameState.players[i].cards[k].isSpawnedCard
                /\ gameState.players[i].cards[k].state = "OTHERS"
                /\ gameState.players[i].cards[k].cardId = cardData("EX1_610")
                /\ gameState.players[i].cards[3 - k].cardId = cardData("CS2_029")

----------------------------------------------------------------------------
(* Claims about secrets and quests (SecretSpec) *)

\* The number of records of the list with this entityId.
RECURSIVE RecordsOf(_, _)
RecordsOf(list, entityId) ==
    IF Len(list) = 0
    THEN 0
    ELSE (IF list[1].entityId = entityId THEN 1 ELSE 0) + RecordsOf(Tail(list), entityId)

\* The side a player is on, by position.
TeamOf(player) == IF player.position = "top" THEN Team.Opposing ELSE Team.Friendly

\* The latest zone-change applied for the entity moved a recognized secret or
\* quest into the secret zone of this team.
LatestEnteredSecretZone(entityId, team) ==
    /\ entityId \in DOMAIN lastDest
    /\ lastDest[entityId].zone = Zone.Secret
    /\ lastDest[entityId].team = team
    /\ lastDest[entityId].cardId \in DOMAIN questMap \cup DOMAIN secretToClass

\* C24: secret and quest records follow the secret zone: a player holds a
\* record for an entityId only if the latest zone-change of that entity for
\* the player's team moved a recognized secret or quest card into the SECRET
\* zone, and holds at most one such record per entityId.
C24_SecretRecordsFollowZone ==
    \A i \in PlayerIndexes :
        \A e \in {parseInt(id) : id \in SecretEntityIds} :
            LET n == RecordsOf(gameState.players[i].secrets, e)
                       + RecordsOf(gameState.players[i].quests, e)
            IN  /\ n <= 1
                /\ n > 0 => LatestEnteredSecretZone(e, TeamOf(gameState.players[i]))

\* The at-most-one-record part of C24 alone.
C24_OneRecordPerEntity ==
    \A i \in PlayerIndexes :
        \A e \in {parseInt(id) : id \in SecretEntityIds} :
            /\ RecordsOf(gameState.players[i].secrets, e) <= 1
            /\ RecordsOf(gameState.players[i].quests, e) <= 1

----------------------------------------------------------------------------
(* Claims about registration (JoinSpec) *)

\* C22: the match holds at most two players, with distinct ids; a line for a
\* third id returns false and changes nothing, and a line for a registered
\* id changes only that player's name, and only when the stored name is the
\* unknown-player placeholder.
C22_AtMostTwoPlayers ==
    /\ Len(gameState.players) <= 2
    /\ \A i, j \in PlayerIndexes :
          gameState.players[i].id = gameState.players[j].id => i = j
    /\ \A id \in JoinIds, name \in JoinNames :
          LET r == playerJoined([id |-> id, name |-> name], gameState, now)
              existingPlayer == getPlayerById(gameState, parseInt(id))
          IN  /\ (existingPlayer = 0 /\ Len(gameState.players) = 2)
                    => r = Result(gameState, FALSE)
              /\ (existingPlayer # 0
                    /\ gameState.players[existingPlayer].name = unknownPlayerName)
                    => r.gameState = [gameState EXCEPT !.players[existingPlayer].name = name]
              /\ (existingPlayer # 0
                    /\ gameState.players[existingPlayer].name # unknownPlayerName)
                    => r = Result(gameState, FALSE)

\* C22 witness: two players are registered, the first under the placeholder
\* name, so that a line for a third id and a line for either registered id
\* can arrive.
C22_Witness ==
    /\ Len(gameState.players) = 2
    /\ gameState.players[1].name = unknownPlayerName
    /\ gameState.players[2].name = "Bob"
    /\ gameState.startTime > 0

----------------------------------------------------------------------------
(* Claims about the block parser (BlockSpec) *)

\* C16: while a block is open, every line carrying the parser's label at the
\* indentation width of the start line is forwarded to the block line
\* handler together with the current block state.
C16_SameWidthLineForwarded ==
    (/\ blockLog.line = "line"
     /\ blockLog.prior # <<>>
     /\ blockLog.width = indent
     /\ ~blockLog.broken)
        => blockLog.forwarded = blockLog.prior

C18_StartDiscardsState ==
    blockLog.line = "start" => blockState = blockLog.initial

----------------------------------------------------------------------------
(* The tailer: LogWatcher.start, stop, update and readLogFile.             *)
(*                                                                         *)
(* Byte b of the file (b in 1..fileSize) lies at offset b - 1.  update is  *)
(* an async function wrapped in _.throttle: the throttle calls it without  *)
(* waiting for the promise it returns, so an invocation is a record in     *)
(* `inflight` from the call until the continuation after its await ran.    *)

\* readLogFile up to the read it issues: the position and the length passed
\* to fs.promises.read.
readLogFile(startByte, endByte) ==
    LET readSize == IF endByte - startByte < 0 THEN endByte ELSE endByte - startByte
    IN  [position |-> startByte, readSize |-> readSize]

\* The synchronous part of one call of the async body of update: the
\* arguments of readLogFile are evaluated and the read is set up.
NewInvocation(size) ==
    [startByte |-> lastFileSize,
     size |-> size,
     read |-> readLogFile(lastFileSize, size),
     pc |-> "read",
     bytes |-> {}]

\* The bytes a read of readSize bytes at position obtains from the file.
BytesRead(read) ==
    {b \in 1..fileSize : b > read.position /\ b <= read.position + read.readSize}

RemoveAt(seq, k) == [i \in 1..(Len(seq) - 1) |-> IF i < k THEN seq[i] ELSE seq[i + 1]]

Deliver(bytes) ==
    [b \in DOMAIN delivered \cup bytes |->
        LET old == IF b \in DOMAIN delivered THEN delivered[b] ELSE 0
        IN  IF b \in bytes /\ old < MaxDelivered THEN old + 1 ELSE old]

\* this.update(filePath, stats): a call of the function _.throttle(..., 100)
\* returns.  Outside the wait it invokes the body at once (leading edge) and
\* arms the timer; inside the wait it only keeps the latest arguments.
update(size) ==
    IF ~throttled
    THEN /\ Len(inflight) < MaxInflight
         /\ inflight' = Append(inflight, NewInvocation(size))
         /\ timerId' = TRUE
         /\ throttled' = TRUE
         /\ lastArgs' = Undefined
    ELSE /\ lastArgs' = size
         /\ timerId' = TRUE
         /\ UNCHANGED <<inflight, throttled>>

\* LogWatcher.start: reset the game state and open the file watch.  Callers
\* start a watcher that is not running.
Start ==
    /\ ~watcher
    /\ gameState' = reset(gameState)
    /\ watcher' = TRUE
    /\ seenSize' = Undefined
    /\ UNCHANGED <<now, lastDest, blockVars, lastFileSize, fileSize, timerId, lastArgs, throttled,
                   inflight, delivered, truncated, stopped, notifyVars, logVars>>

\* LogWatcher.stop
Stop ==
    /\ watcher
    /\ watcher' = FALSE
    /\ lastFileSize' = 0
    /\ stopped' = TRUE
    /\ UNCHANGED <<gameVars, blockVars, fileSize, seenSize, timerId, lastArgs, throttled, inflight,
                   delivered, truncated, notifyVars, logVars>>

\* The game client appends to the log.
Grow ==
    /\ fileSize < MaxFileSize
    /\ fileSize' = fileSize + 1
    /\ UNCHANGED <<gameVars, blockVars, lastFileSize, watcher, seenSize, timerId, lastArgs, throttled,
                   inflight, delivered, truncated, stopped, notifyVars, logVars>>

\* The log is truncated or replaced by a smaller file.
Truncate ==
    /\ fileSize > 0
    /\ \E n \in 0..(fileSize - 1) : fileSize' = n
    /\ truncated' = TRUE
    /\ UNCHANGED <<gameVars, blockVars, lastFileSize, watcher, seenSize, timerId, lastArgs, throttled,
                   inflight, delivered, stopped, notifyVars, logVars>>

\* The "add" and "change" callbacks of the file watch: update(filePath, stats).
OnFileEvent ==
    /\ watcher
    /\ seenSize # fileSize
    /\ seenSize' = fileSize
    /\ update(fileSize)
    /\ UNCHANGED <<gameVars, blockVars, lastFileSize, watcher, fileSize, delivered, truncated,
                   stopped, notifyVars, logVars>>

\* The throttle's timer fires (trailing edge): pending arguments go to the body.
TimerExpired ==
    /\ timerId
    /\ timerId' = FALSE
    /\ IF lastArgs # Undefined
       THEN /\ Len(inflight) < MaxInflight
            /\ inflight' = Append(inflight, NewInvocation(lastArgs))
            /\ lastArgs' = Undefined
            /\ throttled' = TRUE
       ELSE /\ throttled' = FALSE
            /\ UNCHANGED <<inflight, lastArgs>>
    /\ UNCHANGED <<gameVars, blockVars, lastFileSize, watcher, fileSize, seenSize, delivered,
                   truncated, stopped, notifyVars, logVars>>

\* The throttle's wait passes after a trailing invocation.
WaitElapses ==
    /\ throttled
    /\ ~timerId
    /\ throttled' = FALSE
    /\ UNCHANGED <<gameVars, blockVars, lastFileSize, watcher, fileSize, seenSize, timerId, lastArgs,
                   inflight, delivered, truncated, stopped, notifyVars, logVars>>

\* The file read of an invocation is carried out (await in readLogFile).
ReadFile ==
    \E k \in 1..Len(inflight) :
        /\ inflight[k].pc = "read"
        /\ inflight' = [inflight EXCEPT ![k].pc = "resume",
                                        ![k].bytes = BytesRead(inflight[k].read)]
        /\ UNCHANGED <<gameVars, blockVars, lastFileSize, watcher, fileSize, seenSize, timerId,
                       lastArgs, throttled, delivered, truncated, stopped, notifyVars, logVars>>

\* The continuation of update after its await: store the offset, parse.
Resume ==
    \E k \in 1..Len(inflight) :
        /\ inflight[k].pc = "resume"
        /\ lastFileSize' = inflight[k].size
        /\ delivered' = Deliver(inflight[k].bytes)
        /\ inflight' = RemoveAt(inflight, k)
        /\ UNCHANGED <<gameVars, blockVars, watcher, fileSize, seenSize, timerId, lastArgs,
                       throttled, truncated, stopped, notifyVars, logVars>>

TailNext ==
    \/ Start \/ Stop \/ Grow \/ Truncate \/ OnFileEvent
    \/ TimerExpired \/ WaitElapses \/ ReadFile \/ Resume

TailSpec == Init /\ [][TailNext]_vars

\* The tailer on a log that only grows, and stops growing at MaxFileSize.
\* The poll of the file watch reports a changed size, the throttle's timer
\* fires, a file read completes and the continuation of an await runs: the
\* event loop leaves none of them enabled for ever.
GrowthNext ==
    \/ Start \/ Grow \/ OnFileEvent
    \/ TimerExpired \/ WaitElapses \/ ReadFile \/ Resume

GrowthSpec ==
    /\ Init
    /\ [][GrowthNext]_vars
    /\ WF_vars(OnFileEvent)
    /\ WF_vars(TimerExpired)
    /\ WF_vars(WaitElapses)
    /\ WF_vars(ReadFile)
    /\ WF_vars(Resume)

----------------------------------------------------------------------------
(* Claims about the tailer (TailSpec) *)

\* C3: a growth event whose size is below the stored offset makes the tailer
\* read the range [0, newSize) at offset 0.
C3_ShrunkFileReadFromZero ==
    \A k \in 1..Len(inflight) :
        inflight[k].size < inflight[k].startByte =>
            inflight[k].read = [position |-> 0, readSize |-> inflight[k].size]

\* C4: at most one read/parse cycle is in flight at any time.
C4_OneCycleInFlight == Len(inflight) <= 1

\* C5: while the file only grows (and the watcher is not stopped), every
\* byte is handed to the parser pipeline at most once.
C5_ByteDeliveredOnce ==
    (~truncated /\ ~stopped) => \A b \in DOMAIN delivered : delivered[b] <= 1

\* C7: once stop() has been called the offset counter is 0 and stays 0 until
\* the next start().
C7_QuiescentAfterStop == ~watcher => lastFileSize = 0

\* C26: no growth event is lost by coalescing: once growth events stop
\* arriving, the last of them reporting size S, every pending read/parse
\* cycle eventually finishes and the offset counter eventually equals S and
\* stays S, for every completion order of overlapping reads.
C26_OffsetReachesLastSize ==
    <>[](watcher => (Len(inflight) = 0 /\ lastFileSize = seenSize))

\* The cycles-finish part of C26 alone.
C26_CyclesFinish == <>[](watcher => (Len(inflight) = 0 /\ lastArgs = Undefined))

----------------------------------------------------------------------------
(* The change notifier: LogWatcher.parseLines *)

\* The body of the loop of parseLines for one line, r being what the line
\* parsers did with it.  st carries the locals `updated` and `lastTurnTime`,
\* the game state, the number of "gamestate-changed" events this call has
\* emitted, and (history) whether some parser returned true.  The value a
\* parser returns is dropped by the loop: `updated` is only read and cleared.
AfterLine(st, r, opts) ==
    LET turnChanged == /\ st.updated
                       /\ opts.updateEveryTurn
                       /\ r.gameState.turnStartTime # st.lastTurnTime
    IN  [gameState |-> r.gameState,
         updated |-> IF turnChanged THEN FALSE ELSE st.updated,
         lastTurnTime |-> IF turnChanged THEN r.gameState.turnStartTime ELSE st.lastTurnTime,
         emits |-> IF turnChanged THEN st.emits + 1 ELSE st.emits,
         mutated |-> st.mutated \/ r.updated]

\* `for (const line of lines)`: the line parsers are done with a line before
\* the next one is taken (r ranges over the one result they leave).
RECURSIVE parseLoop(_, _, _, _)
parseLoop(lines, st, opts, t) ==
    IF Len(lines) = 0
    THEN st
    ELSE CHOOSE done \in
            {parseLoop(Tail(lines), AfterLine(st, r, opts), opts, t) :
                r \in {lineParsers(lines[1], st.gameState, t)}} : TRUE

\* `if (updated) emit("gamestate-changed")` after the loop.
AfterLoop(st) ==
    [gameState |-> st.gameState,
     emits |-> IF st.updated THEN st.emits + 1 ELSE st.emits,
     mutated |-> st.mutated]

parseLines(lines, gs, opts, t) ==
    AfterLoop(parseLoop(lines,
                        [gameState |-> gs,
                         updated |-> FALSE,
                         lastTurnTime |-> gs.turnStartTime,
                         emits |-> 0,
                         mutated |-> FALSE],
                        opts, t))

\* A line no parser of lineParsers matches.
OtherLine == [label |-> "[Other]", kind |-> "OTHER", groups |-> <<>>]

BatchLines ==
    {CreateGameLine,
     PlayerLine("1", "Alice"),
     TagChangeLine(label.PowerTaskList, "GameEntity", "STEP", "MAIN_READY"),
     OtherLine}

Batches == UNION {[1..n -> BatchLines] : n \in 0..MaxBatch}

\* One call of parseLines on a batch of lines read from the log.
ParseLines ==
    \E lines \in Batches :
        LET r == parseLines(lines, gameState, options, now)
        IN  /\ gameState' = r.gameState
            /\ emitted' = emitted + r.emits
            /\ lastBatch' = [lines |-> Len(lines), mutated |-> r.mutated, emits |-> r.emits]
            /\ UNCHANGED <<now, lastDest, tailVars, logVars, options, blockVars>>

NotifyInit ==
    /\ InitGame
    /\ InitTail
    /\ InitBlock
    /\ InitLog
    /\ options \in [updateEveryTurn : BOOLEAN]
    /\ emitted = 0
    /\ lastBatch = [lines |-> 0, mutated |-> FALSE, emits |-> 0]

NotifyNext == ParseLines \/ Tick

NotifySpec == NotifyInit /\ [][NotifyNext]_vars

\* lodash chunk with a drop of the trailing chunk that is not full.
RECURSIVE chunk_dropsTail(_, _)
chunk_dropsTail(lines, size) ==
    IF Len(lines) < size
    THEN <<>>
    ELSE <<SubSeq(lines, 1, size)>>
            \o chunk_dropsTail(SubSeq(lines, size + 1, Len(lines)), size)

\* _.chunk(lines, size): consecutive groups of size lines, the last one with
\* what remains.
RECURSIVE chunk(_, _)
chunk(lines, size) ==
    IF Len(lines) = 0
    THEN <<>>
    ELSE IF Len(lines) <= size
         THEN <<lines>>
         ELSE <<SubSeq(lines, 1, size)>>
                 \o chunk(SubSeq(lines, size + 1, Len(lines)), size)

\* What the calls of parseLines so far have done, after one more call.
AfterChunk(st, r) ==
    [gameState |-> r.gameState,
     emits |-> st.emits + r.emits,
     mutated |-> st.mutated \/ r.mutated]

\* `for (const chunk of lineChunks) this.parseLines(chunk)`: each call
\* returns before the next one starts (r ranges over the one value it
\* returns).
RECURSIVE parseChunks(_, _, _, _)
parseChunks(lineChunks, st, opts, t) ==
    IF Len(lineChunks) = 0
    THEN st
    ELSE CHOOSE done \in
            {parseChunks(Tail(lineChunks), AfterChunk(st, r), opts, t) :
                r \in {parseLines(lineChunks[1], st.gameState, opts, t)}} : TRUE

\* The tail of the body of update, after the read: the lines go to parseLines
\* in chunks when the option linesPerUpdate is truthy, else at once.
updateLines(lines, gs, opts, t) ==
    IF opts.linesPerUpdate # 0
    THEN parseChunks(chunk(lines, opts.linesPerUpdate),
                     [gameState |-> gs, emits |-> 0, mutated |-> FALSE], opts, t)
    ELSE parseLines(lines, gs, opts, t)

\* One batch of lines read from the log goes through the tail of update.
UpdateLines ==
    \E lines \in Batches :
        LET r == updateLines(lines, gameState, options, now)
        IN  /\ gameState' = r.gameState
            /\ emitted' = emitted + r.emits
            /\ lastBatch' = [lines |-> Len(lines), mutated |-> r.mutated, emits |-> r.emits]
            /\ UNCHANGED <<now, lastDest, tailVars, logVars, options, blockVars>>

\* The watcher is constructed with or without linesPerUpdate (0: not set).
ChunkInit ==
    /\ InitGame
    /\ InitTail
    /\ InitBlock
    /\ InitLog
    /\ options \in [updateEveryTurn : BOOLEAN, linesPerUpdate : 0..MaxChunk]
    /\ emitted = 0
    /\ lastBatch = [lines |-> 0, mutated |-> FALSE, emits |-> 0]

ChunkNext == UpdateLines

ChunkSpec == ChunkInit /\ [][ChunkNext]_vars

\* C27: sub-chunking does not change the reconstructed model: for every
\* batch of lines and every chunk size k >= 1, feeding the batch in
\* consecutive chunks of k lines yields the same GameState as feeding the
\* whole batch at once.
C27_ChunkingKeepsGameState ==
    \A lines \in Batches, k \in 1..MaxChunk :
        updateLines(lines, gameState, [options EXCEPT !.linesPerUpdate = k], now).gameState
            = updateLines(lines, gameState, [options EXCEPT !.linesPerUpdate = 0], now).gameState

\* C27 witness: a watcher with linesPerUpdate = 1 has taken a batch of two
\* lines, one chunk each, that registered a player of a started match.
C27_Witness ==
    /\ options.linesPerUpdate = 1
    /\ lastBatch.lines = 2
    /\ lastBatch.mutated
    /\ Len(gameState.players) = 1
    /\ gameState.startTime = now

\* C6: after a batch has been applied by parseLines, "gamestate-changed" was
\* emitted if some parser returned true for a line of the batch, and was not
\* emitted if none did.
C6_EmittedIffMutated == lastBatch.mutated <=> lastBatch.emits >= 1

====
